---- MODULE Spec2Model ----
(***************************************************************************)
(* A model of spinlock.c: the spin lock (acquire, tryacquire, release),    *)
(* its debug ownership checks (locking, locked, releasing, holding) and    *)
(* the lock statistics registry (lockstat_init, lockstat_stop,             *)
(* lockstat_clear, lockstat_read, lockstat_write).                         *)
(*                                                                         *)
(* Every CPU runs one call at a time; pc[c] is its position in the code.   *)
(* One action is one access to shared memory (an xchg32, a load or a store *)
(* of a shared field) together with the CPU-local work around it.          *)
(* The build flag SPINLOCK_DEBUG is the variable debug, chosen in Init and *)
(* never changed; the model is of a build with LOCKSTAT set.               *)
(***************************************************************************)
EXTENDS Integers, Sequences, FiniteSets

\* ------------------------------------------------------------------ bounds
NCPU == 2
NREC == 2
MaxAcq == 2

\* sizeof(struct lockstat), in abstract units
sz == 2
\* the commands of lockstat_write: buf[0] - '0'
LOCKSTAT_START == 0
LOCKSTAT_STOP == 1
LOCKSTAT_CLEAR == 2

CPUs == 1..NCPU
\* lock 0 is the static lockstat_lock; the callers have two locks of their
\* own, so that their acquisitions nest
lockstat_lock == 0
UserLocks == {1, 2}
Locks == {lockstat_lock} \cup UserLocks
\* the addresses kmalloc can return for a struct klockstat; 0 is NULL
Recs == 1..NREC
NULL == 0

VARIABLES
  debug,            \* SPINLOCK_DEBUG
  locked,           \* lk->locked
  lkcpu,            \* lk->cpu (0: no owner recorded)
  lkstat,           \* lk->stat (NULL or a record)
  ncli,             \* mycpu()->ncli
  intena,           \* mycpu()->intena
  intr,             \* the CPU's interrupt-enable flag (FL_IF)
  pc,               \* each CPU's position
  lk,               \* the lk argument of the acquire/tryacquire/release running
  ret,              \* where that acquire or release returns to
  fn,               \* the function the CPU's caller called last
  arg,              \* the arguments of that call, those of lockstat_read
                    \* (off, n) and of lockstat_write (buf[0] - '0', n)
  rv,               \* the value the CPU's last call returned (0 while one runs)
  msg,              \* the message of the CPU's panic
  lockstat_enable,
  lockstat_list,    \* the records of the list, head first
  mem,              \* the heap: of each record-sized block, whether kmalloc
                    \* can return it ("free"), it is a record ("live") or
                    \* other kernel code has it ("used")
  active,           \* stat->active
  name,             \* stat->s.name: the lock whose name was copied (0: none)
  acquires,         \* stat->s.cpu[c].acquires
  sarg,             \* the lk argument of lockstat_init / lockstat_stop
  sp,               \* the record pointer a CPU loaded from lk->stat
  off, n, cur,      \* lockstat_read's off, n and cur; lockstat_write's n;
                    \* lockstat_clear's place in the list
  dst,              \* what lockstat_read has copied to dst
  \* history, for stating the properties; the code's steps do not read
  \* these, only the callers' choice of what to call next does
  held,             \* the locks a CPU won by xchg32 and has not cleared yet
  d0,               \* ncli when the CPU's current call began
  intr0,            \* the interrupt-enable flag when the CPU started
  nest,             \* the deepest ncli since ncli was last 0
  nacq,             \* acquisitions of a lock by a CPU since tracking started
  track,            \* "init" from the call of lockstat_init(l) to its return;
                    \* "on" from its return, if no acquisition of l ended or
                    \* was under way in between and no other lockstat_init(l)
                    \* is under way; "off" from any
                    \* lockstat_stop(l), STOP or turn of lockstat_clear
  on0,              \* collection was enabled when that lockstat_init(l) returned
  kept,             \* while collection is stopped: every counter is as the
                    \* last STOP left it
  quiet,            \* while collection is stopped: at the last STOP no
                    \* acquisition was past its check of lockstat_enable, and
                    \* since it no lockstat_clear reset a counter
  swept             \* the records the CPU's lockstat_clear found active and
                    \* reset, in the order of the list

lockvars == <<locked, lkcpu>>
clivars == <<ncli, intena, intr, nest>>
ctlvars == <<pc, lk, ret, fn, arg, rv, msg, d0>>
statvars == <<lkstat, lockstat_enable, lockstat_list, mem, active, acquires, name>>
localvars == <<sarg, sp, off, n, cur, dst>>
histvars == <<held, nacq, track, on0, kept, quiet, swept>>
vars == <<debug, intr0, lockvars, clivars, ctlvars, statvars, localvars, histvars>>

\* ----------------------------------------------------------------- helpers
Max(a, b) == IF a >= b THEN a ELSE b

\* holding(lock) that looks at lock->locked only
holding_anycpu(c, l) == locked[l] # 0

\* holding(lock) as evaluated on CPU c.  Its two loads need no separate
\* steps: only c itself ever stores c to lock->cpu, so what another CPU
\* does between the loads cannot change the answer.
holding(c, l) == locked[l] # 0 /\ lkcpu[l] = c

\* pushcli(): save the interrupt flag at the outermost level, mask, count.
pushcli(c) ==
  /\ intena' = IF ncli[c] = 0 THEN [intena EXCEPT ![c] = intr[c]] ELSE intena
  /\ intr' = [intr EXCEPT ![c] = FALSE]
  /\ ncli' = [ncli EXCEPT ![c] = @ + 1]
  /\ nest' = [nest EXCEPT ![c] = IF ncli[c] = 0 THEN 1 ELSE Max(@, ncli[c] + 1)]

\* popcli(), when the count does not go negative
popcli(c) ==
  /\ ncli' = [ncli EXCEPT ![c] = @ - 1]
  /\ intr' = IF ncli[c] - 1 = 0 /\ intena[c]
             THEN [intr EXCEPT ![c] = TRUE] ELSE intr
  /\ UNCHANGED <<intena, nest>>

\* line 15 as int lockstat_enable = 1;
lockstat_enable_on == lockstat_enable = 1

\* line 15: static int lockstat_enable; a static int starts 0
lockstat_enable_init == lockstat_enable = 0

Init ==
  /\ debug \in BOOLEAN
  /\ locked = [l \in Locks |-> 0]
  /\ lkcpu = [l \in Locks |-> 0]
  /\ lkstat = [l \in Locks |-> NULL]
  /\ ncli = [c \in CPUs |-> 0]
  /\ intena = [c \in CPUs |-> FALSE]
  /\ \E b \in BOOLEAN : intr = [c \in CPUs |-> IF c % 2 = 1 THEN b ELSE ~b]
  /\ intr0 = intr
  /\ pc = [c \in CPUs |-> "idle"]
  /\ lk = [c \in CPUs |-> 0]
  /\ ret = [c \in CPUs |-> "idle"]
  /\ fn = [c \in CPUs |-> ""]
  /\ arg = [c \in CPUs |-> <<>>]
  /\ rv = [c \in CPUs |-> 0]
  /\ msg = [c \in CPUs |-> ""]
  /\ lockstat_enable_init
  /\ lockstat_list = <<>>
  /\ \E k \in 0..NREC : mem = [r \in Recs |-> IF r <= k THEN "free" ELSE "used"]
  /\ active = [r \in Recs |-> 0]
  /\ acquires = [r \in Recs |-> [c \in CPUs |-> 0]]
  /\ name = [r \in Recs |-> 0]
  /\ sarg = [c \in CPUs |-> 0]
  /\ sp = [c \in CPUs |-> NULL]
  /\ off = [c \in CPUs |-> 0]
  /\ n = [c \in CPUs |-> 0]
  /\ cur = [c \in CPUs |-> 0]
  /\ dst = [c \in CPUs |-> <<>>]
  /\ held = [c \in CPUs |-> {}]
  /\ d0 = [c \in CPUs |-> 0]
  /\ nest = [c \in CPUs |-> 0]
  /\ nacq = [l \in Locks |-> [c \in CPUs |-> 0]]
  /\ track = [l \in Locks |-> "off"]
  /\ on0 = [l \in Locks |-> FALSE]
  /\ kept = TRUE
  /\ quiet = TRUE
  /\ swept = [c \in CPUs |-> <<>>]

\* ------------------------------------------------------- calls and returns
\* panic(s): the CPU never returns
panic(c, s) ==
  /\ pc' = [pc EXCEPT ![c] = "panic"]
  /\ msg' = [msg EXCEPT ![c] = s]

\* The call returns v to the caller.
Return(c, v) ==
  /\ pc' = [pc EXCEPT ![c] = "idle"]
  /\ rv' = [rv EXCEPT ![c] = v]
  /\ d0' = [d0 EXCEPT ![c] = 0]

\* A caller on an idle CPU makes a call: the last call's results are dropped.
Call(c, f, a) ==
  /\ pc[c] = "idle"
  /\ fn' = [fn EXCEPT ![c] = f]
  /\ arg' = [arg EXCEPT ![c] = a]
  /\ rv' = [rv EXCEPT ![c] = 0]
  /\ d0' = [d0 EXCEPT ![c] = ncli[c]]
  /\ dst' = [dst EXCEPT ![c] = <<>>]

\* The lockstat functions are called by code that holds no spin lock.
StatCall(c) == held[c] = {}

\* A caller on an idle CPU makes a call that returns v without another step.
CallReturn(c, f, a, v) ==
  /\ pc[c] = "idle"
  /\ fn' = [fn EXCEPT ![c] = f]
  /\ arg' = [arg EXCEPT ![c] = a]
  /\ dst' = [dst EXCEPT ![c] = <<>>]
  /\ Return(c, v)

\* acquire, tryacquire or release returns v to label ret[c]: to the caller,
\* or into the lockstat function that called it.
ReturnTo(c, v) ==
  IF ret[c] = "idle" THEN Return(c, v)
  ELSE pc' = [pc EXCEPT ![c] = ret[c]] /\ UNCHANGED <<rv, d0>>

\* The counters are kept within MaxAcq: no caller starts an acquisition that
\* could take one beyond it.
CanCount(c, l) ==
  /\ nacq[l][c] < MaxAcq
  /\ \A r \in Recs : acquires[r][c] < MaxAcq

\* locking(lk) with its check left out
locking_nocheck(c, l) == FALSE

\* locking(lk) panics: this CPU holds lk (SPINLOCK_DEBUG)
locking(c, l) == debug /\ holding(c, l)

\* acquire(lk) up to its loop, without pushcli()
EnterAcquire_nopush(c, l, to) ==
  /\ UNCHANGED clivars
  /\ IF locking(c, l)
     THEN panic(c, "acquire") /\ UNCHANGED ret
     ELSE /\ pc' = [pc EXCEPT ![c] = "acq_xchg"]
          /\ ret' = [ret EXCEPT ![c] = to]
          /\ UNCHANGED msg
  /\ lk' = [lk EXCEPT ![c] = l]

\* acquire(lk) up to its loop: pushcli(); locking(lk);  Both are the CPU's
\* own business (see holding).  Returns to label `to`.
EnterAcquire(c, l, to) ==
  /\ pushcli(c)
  /\ IF locking(c, l)
     THEN panic(c, "acquire") /\ UNCHANGED ret
     ELSE /\ pc' = [pc EXCEPT ![c] = "acq_xchg"]
          /\ ret' = [ret EXCEPT ![c] = to]
          /\ UNCHANGED msg
  /\ lk' = [lk EXCEPT ![c] = l]

\* acquire or tryacquire returns v: one more acquisition of this lock by
\* this CPU (counted in nacq while track[lk] says the count matters).
FinishAcquire(c, v) ==
  /\ ReturnTo(c, v)
  /\ nacq' = IF track[lk[c]] = "on"
             THEN [nacq EXCEPT ![lk[c]][c] = @ + 1] ELSE nacq
  /\ track' = IF track[lk[c]] = "init"
              THEN [track EXCEPT ![lk[c]] = "off"] ELSE track

\* ---------------------------------------------------------------- acquire
Acquire(c, l) ==
  /\ Call(c, "acquire", <<>>)
  /\ CanCount(c, l)
  /\ EnterAcquire(c, l, "idle")
  /\ UNCHANGED <<debug, intr0, lockvars, statvars, sarg, sp, off, n, cur,
                 histvars>>

\* the loop of acquire with a plain store in place of the test of xchg32
AcqXchg_notest(c) ==
  /\ pc[c] = "acq_xchg"
  /\ locked' = [locked EXCEPT ![lk[c]] = 1]
  /\ pc' = [pc EXCEPT ![c] = "acq_locked"]
  /\ held' = [held EXCEPT ![c] = @ \cup {lk[c]}]
  /\ UNCHANGED <<debug, intr0, fn, arg, lkcpu, clivars, lk, ret, rv, msg, d0,
                 statvars, localvars, nacq, track, on0, kept, quiet, swept>>

\* while(xchg32(&lk->locked, 1) != 0) ;  one xchg32.  A failed one stores 1
\* over 1 and leaves the CPU in the loop.
AcqXchg(c) ==
  /\ pc[c] = "acq_xchg"
  /\ locked' = [locked EXCEPT ![lk[c]] = 1]
  /\ IF locked[lk[c]] = 0
     THEN /\ pc' = [pc EXCEPT ![c] = "acq_locked"]
          /\ held' = [held EXCEPT ![c] = @ \cup {lk[c]}]
     ELSE UNCHANGED <<pc, held>>
  /\ UNCHANGED <<debug, intr0, fn, arg, lkcpu, clivars, lk, ret, rv, msg, d0,
                 statvars, localvars, nacq, track, on0, kept, quiet, swept>>

\* locked(lk) that counts whether or not lockstat_enable is set
locked_nogate(c, count, v) ==
  /\ lkcpu' = IF debug THEN [lkcpu EXCEPT ![lk[c]] = c] ELSE lkcpu
  /\ IF lkstat[lk[c]] # NULL
     THEN /\ sp' = [sp EXCEPT ![c] = lkstat[lk[c]]]
          /\ pc' = [pc EXCEPT ![c] = count]
          /\ UNCHANGED <<rv, d0, nacq, track>>
     ELSE /\ FinishAcquire(c, v)
          /\ UNCHANGED sp
  /\ UNCHANGED <<debug, intr0, fn, arg, locked, clivars, lk, ret, msg,
                 statvars, sarg, off, n, cur, dst, held, on0, kept, quiet, swept>>

\* locked(lk) up to its loads of lockstat_enable and lk->stat: record the
\* owner (SPINLOCK_DEBUG), then either go on to count or return v.
locked_(c, count, v) ==
  /\ lkcpu' = IF debug THEN [lkcpu EXCEPT ![lk[c]] = c] ELSE lkcpu
  /\ IF lockstat_enable # 0 /\ lkstat[lk[c]] # NULL
     THEN /\ sp' = [sp EXCEPT ![c] = lkstat[lk[c]]]
          /\ pc' = [pc EXCEPT ![c] = count]
          /\ UNCHANGED <<rv, d0, nacq, track>>
     ELSE /\ FinishAcquire(c, v)
          /\ UNCHANGED sp
  /\ UNCHANGED <<debug, intr0, fn, arg, locked, clivars, lk, ret, msg,
                 statvars, sarg, off, n, cur, dst, held, on0, kept, quiet, swept>>

\* the counting step with the increment lost
count_nostore(c, v) ==
  /\ sp' = [sp EXCEPT ![c] = NULL]
  /\ FinishAcquire(c, v)
  /\ UNCHANGED <<debug, intr0, fn, arg, lockvars, clivars, lk, ret, msg, acquires,
                 statvars, sarg, off, n, cur, dst, held, on0, kept, quiet, swept>>

\* lk->stat->s.cpu[cpunum()].acquires++, then return v.  lk->stat is a plain
\* field that lockstat_stop may store to at any time: the build either
\* keeps the pointer it loaded for the test or loads lk->stat again, and
\* then NULL faults.  The store lands in the record's memory whoever owns it
\* now.
count(c, v) ==
  /\ \E p \in {sp[c], lkstat[lk[c]]} :
       IF p = NULL
       THEN /\ panic(c, "fault")
            /\ UNCHANGED <<acquires, kept, rv, d0, nacq, track>>
       ELSE /\ acquires' = [acquires EXCEPT ![p][c] = @ + 1]
            /\ kept' = (kept /\ lockstat_enable # 0)
            /\ FinishAcquire(c, v)
            /\ UNCHANGED msg
  /\ sp' = [sp EXCEPT ![c] = NULL]
  /\ UNCHANGED <<debug, intr0, fn, arg, lockvars, clivars, lk, ret,
                 lkstat, lockstat_enable, lockstat_list, mem, active, name,
                 sarg, off, n, cur, dst, held, on0, quiet, swept>>

AcqLocked(c) ==
  /\ pc[c] = "acq_locked"
  /\ locked_(c, "acq_count", 0)

AcqCount(c) ==
  /\ pc[c] = "acq_count"
  /\ count(c, 0)

\* ------------------------------------------------------------- tryacquire
\* pushcli(); locking(lk);
Tryacquire(c, l) ==
  /\ Call(c, "tryacquire", <<>>)
  /\ CanCount(c, l)
  /\ pushcli(c)
  /\ IF locking(c, l)
     THEN panic(c, "acquire") /\ UNCHANGED ret
     ELSE /\ pc' = [pc EXCEPT ![c] = "try_xchg"]
          /\ ret' = [ret EXCEPT ![c] = "idle"]
          /\ UNCHANGED msg
  /\ lk' = [lk EXCEPT ![c] = l]
  /\ UNCHANGED <<debug, intr0, lockvars, statvars, sarg, sp, off, n, cur,
                 histvars>>

\* tryacquire's xchg32 whose failure returns 0 without popcli()
TryXchg_nopop(c) ==
  /\ pc[c] = "try_xchg"
  /\ locked' = [locked EXCEPT ![lk[c]] = 1]
  /\ IF locked[lk[c]] = 0
     THEN /\ pc' = [pc EXCEPT ![c] = "try_locked"]
          /\ held' = [held EXCEPT ![c] = @ \cup {lk[c]}]
          /\ UNCHANGED <<rv, d0>>
     ELSE Return(c, 0) /\ UNCHANGED held
  /\ UNCHANGED <<debug, intr0, fn, arg, lkcpu, clivars, lk, ret, msg, statvars,
                 localvars, nacq, track, on0, kept, quiet, swept>>

\* if (xchg32(&lk->locked, 1) != 0) { popcli(); return 0; }
\* the one xchg32 of tryacquire; popcli() is the CPU's own business
TryXchg(c) ==
  /\ pc[c] = "try_xchg"
  /\ locked' = [locked EXCEPT ![lk[c]] = 1]
  /\ IF locked[lk[c]] = 0
     THEN /\ pc' = [pc EXCEPT ![c] = "try_locked"]
          /\ held' = [held EXCEPT ![c] = @ \cup {lk[c]}]
          /\ UNCHANGED <<clivars, rv, d0, msg>>
     ELSE /\ IF ncli[c] - 1 < 0
             THEN panic(c, "popcli") /\ UNCHANGED <<clivars, rv, d0>>
             ELSE popcli(c) /\ Return(c, 0) /\ UNCHANGED msg
          /\ UNCHANGED held
  /\ UNCHANGED <<debug, intr0, fn, arg, lkcpu, lk, ret, statvars, localvars, nacq,
                 track, on0, kept, quiet, swept>>

TryLocked(c) ==
  /\ pc[c] = "try_locked"
  /\ locked_(c, "try_count", 1)

TryCount(c) ==
  /\ pc[c] = "try_count"
  /\ count(c, 1)

\* ---------------------------------------------------------------- release
\* releasing(lk) panics: this CPU does not hold lk (SPINLOCK_DEBUG)
releasing(c, l) == debug /\ ~holding(c, l)

\* release(lk) through releasing(lk): the check, then the recorded owner is
\* cleared (SPINLOCK_DEBUG).  Returns to label `to`.
EnterRelease(c, l, to) ==
  /\ IF releasing(c, l)
     THEN panic(c, "release") /\ UNCHANGED <<lkcpu, ret>>
     ELSE /\ lkcpu' = IF debug THEN [lkcpu EXCEPT ![l] = 0] ELSE lkcpu
          /\ pc' = [pc EXCEPT ![c] = "rel_xchg"]
          /\ ret' = [ret EXCEPT ![c] = to]
          /\ UNCHANGED msg
  /\ lk' = [lk EXCEPT ![c] = l]

\* A caller releases a lock it holds.
Release(c, l) ==
  /\ Call(c, "release", <<>>)
  /\ l \in held[c]
  /\ EnterRelease(c, l, "idle")
  /\ UNCHANGED <<debug, intr0, locked, clivars, statvars, sarg, sp, off, n,
                 cur, histvars>>

\* A caller releases a lock it does not hold.
BadRelease(c, l) ==
  /\ Call(c, "release", <<>>)
  /\ l \notin held[c]
  /\ EnterRelease(c, l, "idle")
  /\ UNCHANGED <<debug, intr0, locked, clivars, statvars, sarg, sp, off, n,
                 cur, histvars>>

\* release that leaves lk->locked as it is
RelXchg_nostore(c) ==
  /\ pc[c] = "rel_xchg"
  /\ held' = [held EXCEPT ![c] = @ \ {lk[c]}]
  /\ pc' = [pc EXCEPT ![c] = "rel_popcli"]
  /\ UNCHANGED <<debug, intr0, fn, arg, lockvars, clivars, lk, ret, rv, msg, d0,
                 statvars, localvars, nacq, track, on0, kept, quiet, swept>>

\* xchg32(&lk->locked, 0)
RelXchg(c) ==
  /\ pc[c] = "rel_xchg"
  /\ locked' = [locked EXCEPT ![lk[c]] = 0]
  /\ held' = [held EXCEPT ![c] = @ \ {lk[c]}]
  /\ pc' = [pc EXCEPT ![c] = "rel_popcli"]
  /\ UNCHANGED <<debug, intr0, fn, arg, lkcpu, clivars, lk, ret, rv, msg, d0,
                 statvars, localvars, nacq, track, on0, kept, quiet, swept>>

\* release that returns without popcli()
RelPopcli_nopop(c) ==
  /\ pc[c] = "rel_popcli"
  /\ ReturnTo(c, 0)
  /\ UNCHANGED <<debug, intr0, fn, arg, lockvars, clivars, lk, ret, msg, statvars,
                 localvars, histvars>>

\* popcli(); and release returns
RelPopcli(c) ==
  /\ pc[c] = "rel_popcli"
  /\ IF ncli[c] - 1 < 0
     THEN panic(c, "popcli") /\ UNCHANGED <<clivars, rv, d0>>
     ELSE popcli(c) /\ ReturnTo(c, 0) /\ UNCHANGED msg
  /\ UNCHANGED <<debug, intr0, fn, arg, lockvars, lk, ret, statvars, localvars,
                 histvars>>

\* ------------------------------------------------------- the lock protocol
AcquireStep(c, L) ==
  \/ \E l \in L : Acquire(c, l)
  \/ AcqXchg(c)
  \/ AcqLocked(c)
  \/ \E l \in L : Release(c, l)
  \/ RelXchg(c)
  \/ RelPopcli(c)

TryStep(c, L) ==
  \/ \E l \in L : Tryacquire(c, l)
  \/ TryXchg(c)
  \/ TryLocked(c)

LockStep(c, L) == AcquireStep(c, L) \/ TryStep(c, L)

\* ------------------------------------------------------ the list of records
\* LIST_REMOVE left out
Remove_none(i) == lockstat_list

\* LIST_REMOVE of the i-th record of the list
Remove(i) ==
  [j \in 1..(Len(lockstat_list) - 1) |->
     IF j < i THEN lockstat_list[j] ELSE lockstat_list[j + 1]]

Zeros == [c \in CPUs |-> 0]

\* Tracking of the locks ls is no longer undisturbed: their acquisitions are
\* not counted in nacq any more.
Taint(ls) ==
  /\ track' = [l \in Locks |-> IF l \in ls THEN "off" ELSE track[l]]
  /\ on0' = [l \in Locks |-> on0[l] /\ l \notin ls]
  /\ nacq' = [l \in Locks |-> IF l \in ls THEN Zeros ELSE nacq[l]]

\* lockstat_clear resets a record's counters (changed says: not all were 0
\* already).
Reset(changed) ==
  /\ kept' = (kept /\ ~(changed /\ lockstat_enable = 0))
  /\ quiet' = (quiet /\ ~(changed /\ lockstat_enable = 0))

\* a CPU is inside acquire(l) or tryacquire(l)
InAcquire(c, l) ==
  /\ lk[c] = l
  /\ pc[c] \in {"acq_xchg", "acq_locked", "acq_count",
                "try_xchg", "try_locked", "try_count"}

\* a CPU is inside lockstat_init(l)
InInit(c, l) == fn[c] = "lockstat_init" /\ sarg[c] = l

\* ------------------------------------------------------------ lockstat_init
\* lines 154-159: panic if lk->stat is set; lk->stat = kmalloc(), which
\* returns NULL or a record not in use.  The caller is the only one to start
\* tracking this lock, so the load and the store of lk->stat are one step.
LockstatInit(c, l) ==
  /\ StatCall(c)
  /\ IF lkstat[l] # NULL
     THEN /\ Call(c, "lockstat_init", <<>>)
          /\ panic(c, "initlockstat")
          /\ UNCHANGED <<lkstat, mem, sarg, sp, track>>
     ELSE /\ \E r \in {NULL} \cup {q \in Recs : mem[q] = "free"} :
               /\ lkstat' = [lkstat EXCEPT ![l] = r]
               /\ IF r = NULL
                  THEN /\ CallReturn(c, "lockstat_init", <<>>, 0)
                       /\ UNCHANGED <<mem, sarg, sp, track>>
                  ELSE /\ Call(c, "lockstat_init", <<>>)
                       /\ mem' = [mem EXCEPT ![r] = "live"]
                       /\ sarg' = [sarg EXCEPT ![c] = l]
                       /\ sp' = [sp EXCEPT ![c] = r]
                       /\ pc' = [pc EXCEPT ![c] = "init_memset"]
                       /\ track' = [track EXCEPT ![l] = "init"]
          /\ UNCHANGED msg
  /\ UNCHANGED <<debug, intr0, lockvars, clivars, lk, ret, lockstat_enable,
                 lockstat_list, active, acquires, name, off, n, cur,
                 held, nacq, on0, kept, quiet, swept>>

\* lines 160-165: memset, active = 1, the name, and into acquire
InitMemset(c) ==
  /\ pc[c] = "init_memset"
  /\ acquires' = [acquires EXCEPT ![sp[c]] = Zeros]
  /\ active' = [active EXCEPT ![sp[c]] = 1]
  /\ name' = [name EXCEPT ![sp[c]] = sarg[c]]
  /\ EnterAcquire(c, lockstat_lock, "init_insert")
  /\ UNCHANGED <<debug, intr0, fn, arg, lockvars, rv, d0, lkstat, lockstat_enable,
                 lockstat_list, mem, localvars, histvars>>

\* lines 166-167: LIST_INSERT_HEAD, and into release
InitInsert(c) ==
  /\ pc[c] = "init_insert"
  /\ lockstat_list' = <<sp[c]>> \o lockstat_list
  /\ sp' = [sp EXCEPT ![c] = NULL]
  /\ EnterRelease(c, lockstat_lock, "init_ret")
  /\ UNCHANGED <<debug, intr0, fn, arg, locked, clivars, rv, d0, lkstat,
                 lockstat_enable, mem, active, acquires, name, sarg, off, n,
                 cur, dst, histvars>>

\* line 168: lockstat_init returns; tracking of the lock has started
InitRet(c) ==
  /\ pc[c] = "init_ret"
  /\ Return(c, 0)
  /\ sarg' = [sarg EXCEPT ![c] = 0]
  /\ nacq' = [nacq EXCEPT ![sarg[c]] = Zeros]
  /\ LET on == /\ track[sarg[c]] = "init"
               /\ \A q \in CPUs : ~InAcquire(q, sarg[c])
               /\ \A q \in CPUs \ {c} : ~InInit(q, sarg[c])
     IN /\ track' = [track EXCEPT ![sarg[c]] = IF on THEN "on" ELSE "off"]
        /\ on0' = [on0 EXCEPT ![sarg[c]] = on /\ lockstat_enable # 0]
  /\ UNCHANGED <<debug, intr0, fn, arg, lockvars, clivars, lk, ret, msg, statvars, sp,
                 off, n, cur, dst, held, kept, quiet, swept>>

\* ------------------------------------------------------------ lockstat_stop
\* lines 173-174: if (lk->stat != NULL) lk->stat->active = 0;
LockstatStop(c, l) ==
  /\ StatCall(c)
  /\ IF lkstat[l] = NULL
     THEN /\ CallReturn(c, "lockstat_stop", <<>>, 0)
          /\ UNCHANGED <<active, sarg, track, on0, nacq>>
     ELSE /\ Call(c, "lockstat_stop", <<>>)
          /\ active' = [active EXCEPT ![lkstat[l]] = 0]
          /\ sarg' = [sarg EXCEPT ![c] = l]
          /\ Taint({l})
          /\ pc' = [pc EXCEPT ![c] = "stop_null"]
  /\ UNCHANGED <<debug, intr0, lockvars, clivars, lk, ret, msg, lkstat,
                 lockstat_enable, lockstat_list, mem, acquires, name, sp, off,
                 n, cur, held, kept, quiet, swept>>

\* line 175: lk->stat = NULL;
StopNull(c) ==
  /\ pc[c] = "stop_null"
  /\ lkstat' = [lkstat EXCEPT ![sarg[c]] = NULL]
  /\ sarg' = [sarg EXCEPT ![c] = 0]
  /\ Taint({sarg[c]})
  /\ Return(c, 0)
  /\ UNCHANGED <<debug, intr0, fn, arg, lockvars, clivars, lk, ret, msg,
                 lockstat_enable, lockstat_list, mem, active, acquires, name,
                 sp, off, n, cur, dst, held, kept, quiet, swept>>

\* ----------------------------------------------------------- lockstat_write
\* the commands callers write: the three of the switch and a fourth
Cmds == {LOCKSTAT_START, LOCKSTAT_STOP, LOCKSTAT_CLEAR, LOCKSTAT_CLEAR + 1}
\* lines 227-242, a write of nn bytes whose first is the command cmd
LockstatWrite(c, cmd, nn) ==
  /\ StatCall(c)
  /\ IF cmd = LOCKSTAT_START
     THEN /\ lockstat_enable' = 1
          /\ kept' = TRUE
          /\ quiet' = TRUE
          /\ CallReturn(c, "lockstat_write", <<cmd, nn>>, nn)
          /\ UNCHANGED <<clivars, lk, ret, msg, n, track, on0, nacq, swept>>
     ELSE IF cmd = LOCKSTAT_STOP
     THEN /\ lockstat_enable' = 0
          /\ kept' = TRUE
          /\ quiet' = \A q \in CPUs : pc[q] \notin {"acq_count", "try_count"}
          /\ Taint(Locks)
          /\ CallReturn(c, "lockstat_write", <<cmd, nn>>, nn)
          /\ UNCHANGED <<clivars, lk, ret, msg, n, swept>>
     ELSE IF cmd = LOCKSTAT_CLEAR
     THEN /\ Call(c, "lockstat_write", <<cmd, nn>>)
          /\ EnterAcquire(c, lockstat_lock, "clear_loop")
          /\ n' = [n EXCEPT ![c] = nn]
          /\ UNCHANGED <<lockstat_enable, track, on0, nacq, kept, quiet, swept>>
     ELSE /\ CallReturn(c, "lockstat_write", <<cmd, nn>>, -1)
          /\ UNCHANGED <<lockstat_enable, clivars, lk, ret, msg, n, track,
                         on0, nacq, kept, quiet, swept>>
  /\ UNCHANGED <<debug, intr0, lockvars, lkstat, lockstat_list, mem,
                 active, acquires, name, sarg, sp, off, cur, held>>

\* line 242 as return 0;
WriteRet_zero(c) ==
  /\ pc[c] = "write_ret"
  /\ Return(c, 0)
  /\ n' = [n EXCEPT ![c] = 0]
  /\ swept' = [swept EXCEPT ![c] = <<>>]
  /\ UNCHANGED <<debug, intr0, fn, arg, lockvars, clivars, lk, ret, msg,
                 statvars, sarg, sp, off, cur, dst, held, nacq, track, on0,
                 kept, quiet>>

\* line 242: return n; after lockstat_clear
WriteRet(c) ==
  /\ pc[c] = "write_ret"
  /\ Return(c, n[c])
  /\ n' = [n EXCEPT ![c] = 0]
  /\ swept' = [swept EXCEPT ![c] = <<>>]
  /\ UNCHANGED <<debug, intr0, fn, arg, lockvars, clivars, lk, ret, msg,
                 statvars, sarg, sp, off, cur, dst, held, nacq, track, on0,
                 kept, quiet>>

\* ----------------------------------------------------------- lockstat_clear
\* the test of line 186 taken for true whatever the record
inactive_any(r) == TRUE

\* line 186: stat->active == 0
inactive(r) == active[r] = 0

\* lines 185-193: one turn of LIST_FOREACH_SAFE, or at the end of the list
\* into release.  The list changes only under lockstat_lock, so the place
\* in it is kept as cur, the number of records passed and not removed.
ClearLoop(c) ==
  /\ pc[c] = "clear_loop"
  /\ IF cur[c] >= Len(lockstat_list)
     THEN /\ EnterRelease(c, lockstat_lock, "write_ret")
          /\ cur' = [cur EXCEPT ![c] = 0]
          /\ UNCHANGED <<lockstat_list, mem, acquires, track, on0, nacq, kept,
                         quiet, swept>>
     ELSE /\ LET stat == lockstat_list[cur[c] + 1]
             IN IF inactive(stat)
                THEN /\ lockstat_list' = Remove(cur[c] + 1)
                     /\ mem' = [mem EXCEPT ![stat] = "free"]
                     /\ UNCHANGED <<acquires, cur, kept, quiet, swept>>
                ELSE /\ acquires' = [acquires EXCEPT ![stat] = Zeros]
                     /\ Reset(acquires[stat] # Zeros)
                     /\ cur' = [cur EXCEPT ![c] = @ + 1]
                     /\ swept' = [swept EXCEPT ![c] = Append(@, stat)]
                     /\ UNCHANGED <<lockstat_list, mem>>
          /\ Taint(Locks)
          /\ UNCHANGED <<pc, msg, lkcpu, lk, ret>>
  /\ UNCHANGED <<debug, intr0, fn, arg, locked, clivars, rv, d0, lkstat,
                 lockstat_enable, active, name, sarg, sp, off, n, dst, held>>

\* ------------------------------------------------------------ lockstat_read
\* what memmove(dst, ls, sz) copies of record r: its struct lockstat
Copy(r) == [name |-> name[r], cpu |-> acquires[r]]

\* the test of line 203 without n < sz
misfit_off(o, nn) == o % sz # 0

\* line 203: off % sz || n < sz
misfit(o, nn) == o % sz # 0 \/ nn < sz

\* lines 203-207
LockstatRead(c, o, nn) ==
  /\ StatCall(c)
  /\ IF misfit(o, nn)
     THEN /\ CallReturn(c, "lockstat_read", <<o, nn>>, -1)
          /\ UNCHANGED <<clivars, lk, ret, msg, off, n, cur>>
     ELSE /\ Call(c, "lockstat_read", <<o, nn>>)
          /\ off' = [off EXCEPT ![c] = o]
          /\ n' = [n EXCEPT ![c] = nn]
          /\ cur' = [cur EXCEPT ![c] = 0]
          /\ EnterAcquire(c, lockstat_lock, "read_loop")
  /\ UNCHANGED <<debug, intr0, lockvars, statvars, sarg, sp, histvars>>

\* lines 208-219: one turn of LIST_FOREACH, or at its end into release.
\* stat is the record cur / sz records down the list.
ReadLoop(c) ==
  /\ pc[c] = "read_loop"
  /\ IF cur[c] \div sz >= Len(lockstat_list) \/ n[c] < sz
     THEN /\ EnterRelease(c, lockstat_lock, "read_ret")
          /\ UNCHANGED <<n, cur, dst>>
     ELSE /\ IF cur[c] >= off[c]
             THEN /\ dst' = [dst EXCEPT ![c] =
                               Append(@, Copy(lockstat_list[cur[c] \div sz + 1]))]
                  /\ n' = [n EXCEPT ![c] = @ - sz]
             ELSE UNCHANGED <<dst, n>>
          /\ cur' = [cur EXCEPT ![c] = @ + sz]
          /\ UNCHANGED <<pc, msg, lkcpu, lk, ret>>
  /\ UNCHANGED <<debug, intr0, fn, arg, locked, clivars, rv, d0, statvars, sarg, sp,
                 off, histvars>>

\* line 221 as return cur;
ReadRet_cur(c) ==
  /\ pc[c] = "read_ret"
  /\ Return(c, cur[c])
  /\ off' = [off EXCEPT ![c] = 0]
  /\ n' = [n EXCEPT ![c] = 0]
  /\ cur' = [cur EXCEPT ![c] = 0]
  /\ UNCHANGED <<debug, intr0, fn, arg, lockvars, clivars, lk, ret, msg,
                 statvars, sarg, sp, dst, histvars>>

\* line 221: return cur >= off ? cur - off : 0;
ReadRet(c) ==
  /\ pc[c] = "read_ret"
  /\ Return(c, IF cur[c] >= off[c] THEN cur[c] - off[c] ELSE 0)
  /\ off' = [off EXCEPT ![c] = 0]
  /\ n' = [n EXCEPT ![c] = 0]
  /\ cur' = [cur EXCEPT ![c] = 0]
  /\ UNCHANGED <<debug, intr0, fn, arg, lockvars, clivars, lk, ret, msg,
                 statvars, sarg, sp, dst, histvars>>

\* ---------------------------------------------------- the statistics calls
StatStep(c, L, O, N, W) ==
  \/ AcqCount(c)
  \/ \E l \in L : LockstatInit(c, l)
  \/ InitMemset(c)
  \/ InitInsert(c)
  \/ InitRet(c)
  \/ \E l \in L : LockstatStop(c, l)
  \/ StopNull(c)
  \/ \E cmd \in Cmds, nn \in W : LockstatWrite(c, cmd, nn)
  \/ WriteRet(c)
  \/ ClearLoop(c)
  \/ \E o \in O, nn \in N : LockstatRead(c, o, nn)
  \/ ReadLoop(c)
  \/ ReadRet(c)

\* Callers that use the locks and leave the statistics alone.
Next == \E c \in CPUs : LockStep(c, UserLocks)

Spec == Init /\ [][Next]_vars

\* Callers that take one lock at a time with acquire and release it.
NextLive ==
  \E c \in CPUs :
    \/ \E l \in UserLocks : held[c] = {} /\ Acquire(c, l)
    \/ AcqXchg(c)
    \/ AcqLocked(c)
    \/ \E l \in UserLocks : Release(c, l)
    \/ RelXchg(c)
    \/ RelPopcli(c)

\* Every CPU goes on executing the function it is in (a CPU in acquire's
\* loop goes on executing xchg32, which gets it out of the loop only when it
\* finds the lock free), and a caller that holds a lock calls release.
Fairness ==
  \A c \in CPUs :
    /\ WF_vars(AcqXchg(c))
    /\ WF_vars(AcqLocked(c))
    /\ WF_vars(\E l \in UserLocks : Release(c, l))
    /\ WF_vars(RelXchg(c))
    /\ WF_vars(RelPopcli(c))

SpecFair == Init /\ [][NextLive]_vars /\ Fairness

\* Callers of a debug build that also release locks they do not hold.
NextMisuse ==
  \E c \in CPUs : LockStep(c, UserLocks) \/ \E l \in UserLocks : BadRelease(c, l)

InitDebug == Init /\ debug = TRUE

SpecMisuse == InitDebug /\ [][NextMisuse]_vars

\* Callers that acquire and release one lock, track it, switch collection
\* on and off, clear the records and read them from the start.
StatLocks == {1}

NextStat ==
  \E c \in CPUs :
    AcquireStep(c, StatLocks) \/ StatStep(c, StatLocks, {0, 1}, {1, sz}, {1})

\* lockstat_init copies lk->name, a field of SPINLOCK_DEBUG builds; the
\* heap has one block to give
InitStat ==
  /\ Init
  /\ debug = TRUE
  /\ intr[1] = TRUE
  /\ \A r \in Recs : mem[r] = "free" <=> r = 1

SpecStat == InitStat /\ [][NextStat]_vars

\* Callers that leave the locks alone: CPU 1 tracks two locks, stops
\* tracking them and writes CLEAR, while the other CPUs read the list at
\* offsets and with lengths on and off the record size.
Offs == {0, 1, sz, 2 * sz}
Lens == {1, sz, 2 * sz + 1}

NextReg ==
  \E c \in CPUs :
    \/ AcqXchg(c)
    \/ AcqLocked(c)
    \/ RelXchg(c)
    \/ RelPopcli(c)
    \/ \E l \in UserLocks : c = 1 /\ LockstatInit(c, l)
    \/ InitMemset(c)
    \/ InitInsert(c)
    \/ InitRet(c)
    \/ \E l \in UserLocks : c = 1 /\ LockstatStop(c, l)
    \/ StopNull(c)
    \/ c = 1 /\ LockstatWrite(c, LOCKSTAT_CLEAR, 1)
    \/ WriteRet(c)
    \/ ClearLoop(c)
    \/ \E o \in Offs, nn \in Lens : c # 1 /\ LockstatRead(c, o, nn)
    \/ ReadLoop(c)
    \/ ReadRet(c)

\* every block of the heap is free
InitReg ==
  /\ Init
  /\ debug = TRUE
  /\ intr[1] = TRUE
  /\ \A r \in Recs : mem[r] = "free"

SpecReg == InitReg /\ [][NextReg]_vars

\* CPU 1 tracks a lock, acquires and releases it; the other CPUs write
\* commands of one and of three bytes.
Wlens == {1, 3}

NextCmd ==
  \E c \in CPUs :
    \/ \E l \in StatLocks : c = 1 /\ Acquire(c, l)
    \/ AcqXchg(c)
    \/ AcqLocked(c)
    \/ AcqCount(c)
    \/ \E l \in StatLocks : c = 1 /\ Release(c, l)
    \/ RelXchg(c)
    \/ RelPopcli(c)
    \/ \E l \in StatLocks : c = 1 /\ LockstatInit(c, l)
    \/ InitMemset(c)
    \/ InitInsert(c)
    \/ InitRet(c)
    \/ \E cmd \in Cmds, nn \in Wlens : c # 1 /\ LockstatWrite(c, cmd, nn)
    \/ WriteRet(c)
    \/ ClearLoop(c)

SpecCmd == InitStat /\ [][NextCmd]_vars

\* ================================================================ properties
\* CPU c is a holder of lock l: from its winning xchg32 in acquire or
\* tryacquire until its xchg32 in release clears the lock word.
Holds(c, l) == l \in held[c]

Holders(l) == {c \in CPUs : Holds(c, l)}

\* CPU c is in the loop of acquire(l)
Spinning(c, l) == pc[c] = "acq_xchg" /\ lk[c] = l

\* The step is CPU c's call of one of the functions fs.
Calls(c, fs) == pc[c] = "idle" /\ pc'[c] # "idle" /\ fn'[c] \in fs

\* C1: at no time are two different CPUs holders of the same lock.
MutualExclusion == \A l \in UserLocks : Cardinality(Holders(l)) <= 1

\* C1 happens: a CPU holds a lock while another is in acquire's loop for it.
MutualExclusionSeen ==
  \E c, q \in CPUs : \E l \in UserLocks :
    c # q /\ Holds(c, l) /\ pc[c] = "idle" /\ Spinning(q, l)

\* C2: the lock word is 1 exactly while exactly one CPU is a holder of the
\* lock, and is 0 otherwise.
LockedIffHeld ==
  \A l \in UserLocks :
    /\ locked[l] \in {0, 1}
    /\ locked[l] = 1 <=> Cardinality(Holders(l)) = 1

\* C2 happens: a lock was taken and released and is free while the other lock
\* is held.
LockedIffHeldSeen ==
  \E c \in CPUs : \E l, m \in UserLocks :
    /\ pc[c] = "idle" /\ fn[c] = "release" /\ lk[c] = l
    /\ locked[l] = 0 /\ Holders(l) = {}
    /\ locked[m] = 1 /\ Holders(m) # {}

\* C3: tryacquire's xchg32 on a lock that is held makes it return 0 in that
\* step, without a loop, with ncli as it was when tryacquire was called and
\* with the lock word and the holders as they were.
TryFailsAtOnce ==
  [][\A c \in CPUs :
       (pc[c] = "try_xchg" /\ locked[lk[c]] # 0 /\ pc'[c] # pc[c]) =>
         /\ pc'[c] = "idle" /\ rv'[c] = 0
         /\ ncli'[c] = d0[c]
         /\ locked' = locked /\ held' = held]_vars

\* C3 happens: tryacquire of a lock another CPU holds has returned 0 to a
\* caller that holds a lock of its own and so has ncli at 1.
TryFailsAtOnceSeen ==
  \E c, q \in CPUs :
    /\ c # q /\ pc[c] = "idle" /\ fn[c] = "tryacquire" /\ rv[c] = 0
    /\ Holds(q, lk[c]) /\ ncli[c] = 1 /\ held[c] # {}

\* C4: a CPU that is a holder of a lock has interrupts off and ncli at least
\* the number of locks it holds (so at least 1); in particular after it
\* released one of two locks interrupts are still off.
MaskedWhileHolding ==
  \A c \in CPUs :
    held[c] # {} => intr[c] = FALSE /\ ncli[c] >= Cardinality(held[c])

\* C4 happens: a CPU that had interrupts on took two locks and has released
\* one of them.
MaskedWhileHoldingSeen ==
  \E c \in CPUs :
    /\ pc[c] = "idle" /\ fn[c] = "release" /\ nest[c] = 2
    /\ Cardinality(held[c]) = 1 /\ intena[c] = TRUE /\ intr0[c] = TRUE

\* C5: when a CPU's calls have returned, ncli is the number of locks it still
\* holds; once every acquisition is matched by a release ncli is 0 and the
\* interrupt flag is what it was before the first of them, on or off.
NestingSymmetry ==
  \A c \in CPUs :
    /\ pc[c] = "idle" => ncli[c] = Cardinality(held[c])
    /\ (pc[c] = "idle" /\ held[c] = {}) => intr[c] = intr0[c]

\* C5 happens: every CPU (they start with different flags) has nested two
\* acquisitions and released both.
NestingSymmetrySeen ==
  \A c \in CPUs :
    /\ pc[c] = "idle" /\ fn[c] = "release" /\ held[c] = {}
    /\ nest[c] = 2 /\ ncli[c] = 0

\* C6 as stated: a CPU in acquire's loop for a lock eventually becomes a
\* holder of that lock.
EveryAcquireReturns ==
  \A c \in CPUs : \A l \in UserLocks : Spinning(c, l) ~> Holds(c, l)

\* C6: while some CPU is in acquire's loop for a lock, again and again some
\* CPU wins that lock: the lock makes progress, though not for each CPU.
SomeAcquireReturns ==
  \A l \in UserLocks :
    (\E c \in CPUs : Spinning(c, l)) ~>
      (\E c \in CPUs : pc[c] = "acq_locked" /\ lk[c] = l)

\* C6 happens: a CPU is in acquire's loop for a lock that another CPU, back
\* from acquire, holds.
SomeAcquireReturnsSeen ==
  \E c, q \in CPUs : \E l \in UserLocks :
    c # q /\ Spinning(c, l) /\ Holds(q, l) /\ pc[q] = "idle" /\ fn[q] = "acquire"

\* C7: in a SPINLOCK_DEBUG build, a call of acquire or tryacquire for a lock
\* the calling CPU holds goes to panic("acquire") in that step, never to the
\* xchg32; and a CPU that panicked stays so.
ReacquirePanics ==
  [][\A c \in CPUs :
       /\ (debug /\ Calls(c, {"acquire", "tryacquire"}) /\ Holds(c, lk'[c])) =>
            (pc'[c] = "panic" /\ msg'[c] = "acquire")
       /\ pc[c] = "panic" => pc'[c] = "panic"]_vars

\* C7 happens: one CPU panicked in acquire and another in tryacquire, each
\* for a lock it holds.
ReacquirePanicsSeen ==
  \E c, q \in CPUs :
    /\ debug /\ pc[c] = "panic" /\ pc[q] = "panic"
    /\ fn[c] = "acquire" /\ msg[c] = "acquire" /\ Holds(c, lk[c])
    /\ fn[q] = "tryacquire" /\ msg[q] = "acquire" /\ Holds(q, lk[q])

\* C8: in a SPINLOCK_DEBUG build, a call of release for a lock the calling
\* CPU does not hold (free, or another CPU's, wherever that CPU is in its
\* acquire or release) goes to panic("release") in that step, with the lock
\* word, the recorded owner and ncli as they were.
BadReleasePanics ==
  [][\A c \in CPUs :
       (debug /\ Calls(c, {"release"}) /\ ~Holds(c, lk'[c])) =>
         /\ pc'[c] = "panic" /\ msg'[c] = "release"
         /\ locked' = locked /\ lkcpu' = lkcpu /\ ncli' = ncli]_vars

\* C8 happens: a CPU panicked in release of a lock that another CPU had just
\* won and not yet recorded itself as the owner of.
BadReleasePanicsSeen ==
  \E c, q \in CPUs :
    /\ c # q /\ pc[c] = "panic" /\ fn[c] = "release" /\ msg[c] = "release"
    /\ pc[q] = "acq_locked" /\ lk[q] = lk[c] /\ Holds(q, lk[c])

\* The step is a turn of lockstat_read's loop on CPU q that copies a record.
Copies(q) == pc[q] = "read_loop" /\ Len(dst'[q]) = Len(dst[q]) + 1

\* the record that step copies, and the copy
Copied(q) == lockstat_list[cur[q] \div sz + 1]

Copy_(q) == dst'[q][Len(dst'[q])]

\* While tracking of a lock is undisturbed its record is in the list.
Listed(l) ==
  /\ lkstat[l] # NULL
  /\ \E i \in 1..Len(lockstat_list) : lockstat_list[i] = lkstat[l]
  /\ name[lkstat[l]] = l

\* C9 as stated: once lockstat_init(l) has returned, with no lockstat_stop(l),
\* STOP or CLEAR since, the lock's record is in the list and lockstat_read
\* copies it with, for every CPU, the number of acquisitions of l that CPU
\* has completed since.
CountsReadBackAlways ==
  /\ [](\A l \in UserLocks : track[l] = "on" => Listed(l))
  /\ [][\A q \in CPUs : \A l \in UserLocks :
         (Copies(q) /\ track[l] = "on" /\ Copied(q) = lkstat[l]) =>
           (Copy_(q).name = l /\ Copy_(q).cpu = nacq[l])]_vars

\* C9: the same, when collection was enabled (START) as lockstat_init(l)
\* returned.
CountsReadBack ==
  /\ [](\A l \in UserLocks : track[l] = "on" => Listed(l))
  /\ [][\A q \in CPUs : \A l \in UserLocks :
         (Copies(q) /\ track[l] = "on" /\ on0[l] /\ Copied(q) = lkstat[l]) =>
           (Copy_(q).name = l /\ Copy_(q).cpu = nacq[l])]_vars

\* C9 happens: lockstat_read has returned the record of a lock with 2
\* acquisitions by one CPU and none by the others.
CountsReadBackSeen ==
  \E q, c \in CPUs : \E l \in UserLocks :
    /\ pc[q] = "idle" /\ fn[q] = "lockstat_read" /\ rv[q] = sz
    /\ track[l] = "on" /\ on0[l] /\ dst[q][1].name = l /\ dst[q][1].cpu = nacq[l]
    /\ nacq[l][c] = 2 /\ \A o \in CPUs \ {c} : nacq[l][o] = 0

\* The step is a START that ends a time with collection stopped.
Starts == lockstat_enable = 0 /\ lockstat_enable' # 0

\* What C10 says of each step: locked() that finds collection stopped leaves
\* the counters alone; START and STOP leave them alone; a counter that
\* changes and is not reset goes up by one.
GateStep ==
  /\ \A c \in CPUs :
       (pc[c] \in {"acq_locked", "try_locked"} /\ lockstat_enable = 0
          /\ pc'[c] # pc[c]) =>
         (acquires' = acquires /\ pc'[c] \notin {"acq_count", "try_count"})
  /\ lockstat_enable' # lockstat_enable => acquires' = acquires
  /\ \A r \in Recs : \A c \in CPUs :
       acquires'[r][c] \in {acquires[r][c], acquires[r][c] + 1, 0}

\* C10 as stated: and at a START every counter is as the last STOP left it.
GatingAlways == [][GateStep /\ (Starts => kept)]_vars

\* C10: and at a START every counter is as the last STOP left it, if at that
\* STOP no acquisition had passed its check of lockstat_enable and since it
\* no lockstat_clear reset a counter.
Gating == [][GateStep /\ ((Starts /\ quiet) => kept)]_vars

\* C10 happens: with collection stopped and the counters as STOP left them,
\* one of them not 0, an acquisition of the tracked lock is at locked().
GatingSeen ==
  \E c \in CPUs :
    /\ lockstat_enable = 0 /\ quiet /\ kept
    /\ pc[c] = "acq_locked" /\ lkstat[lk[c]] # NULL
    /\ acquires[lkstat[lk[c]]][c] >= 1

\* record r is in the list
InList(r) == \E i \in 1..Len(lockstat_list) : lockstat_list[i] = r

\* The step is a turn of lockstat_clear's loop on CPU c, at the record
\* Swept(c).
Sweeps(c) ==
  /\ pc[c] = "clear_loop" /\ cur[c] < Len(lockstat_list)
  /\ (lockstat_list' # lockstat_list \/ cur'[c] # cur[c])

Swept(c) == lockstat_list[cur[c] + 1]

\* lockstat_clear on CPU c is at the end of the list.
SweepDone(c) == pc[c] = "clear_loop" /\ cur[c] >= Len(lockstat_list)

\* What a turn of the loop does: a record that is not active leaves the
\* list and is freed; an active one stays, with every counter 0.
SweepStep ==
  \A c \in CPUs :
    Sweeps(c) =>
      IF active[Swept(c)] = 0
      THEN /\ Len(lockstat_list') = Len(lockstat_list) - 1
           /\ \A i \in 1..Len(lockstat_list') : lockstat_list'[i] # Swept(c)
           /\ mem'[Swept(c)] = "free"
      ELSE /\ lockstat_list' = lockstat_list
           /\ mem' = mem
           /\ acquires'[Swept(c)] = Zeros

\* C11 as stated: when lockstat_clear has passed the list, the list holds
\* the records it found active, none it found not active and none that is
\* freed, and every counter of every record in the list is 0.
ClearAllZero ==
  \A c \in CPUs :
    SweepDone(c) =>
      /\ lockstat_list = swept[c]
      /\ \A i \in 1..Len(lockstat_list) :
           /\ mem[lockstat_list[i]] = "live"
           /\ acquires[lockstat_list[i]] = Zeros

\* C11: when lockstat_clear has passed the list, the list holds the records
\* it found active, none it found not active (so none of a lock whose
\* lockstat_stop had returned) and none that is freed; each record it found
\* active had every counter 0 when its turn of the loop ended.
ClearAll ==
  /\ [](\A c \in CPUs :
          SweepDone(c) =>
            /\ lockstat_list = swept[c]
            /\ \A i \in 1..Len(lockstat_list) : mem[lockstat_list[i]] = "live")
  /\ [][SweepStep]_vars

\* C11 happens: lockstat_clear is at the end of a list it has emptied, and
\* the record it freed had counted and was of a lock no longer tracked.
ClearAllSeen ==
  \E c \in CPUs : \E r \in Recs :
    /\ SweepDone(c) /\ lockstat_list = <<>> /\ swept[c] = <<>>
    /\ mem[r] = "free" /\ active[r] = 0 /\ name[r] # 0
    /\ lkstat[name[r]] = NULL /\ acquires[r] # Zeros

\* The step is a turn of lockstat_read's loop on CPU q at a record at or
\* beyond off.
Reads(q) == pc[q] = "read_loop" /\ cur'[q] # cur[q] /\ cur[q] >= off[q]

\* The step changes counters of record r only as one acquisition does: one
\* CPU that is at its increment adds 1 to its own counter.
Counts(r) ==
  \E c \in CPUs :
    /\ pc[c] \in {"acq_count", "try_count"}
    /\ acquires'[r] = [acquires[r] EXCEPT ![c] = @ + 1]

\* What C12 says of each step, but for the counters: a record leaves the
\* list, and a record is freed, only in a turn of lockstat_clear's loop at
\* that record, found not active; a record in the list that is not active
\* does not become active; lockstat_read copies the record it is at, active
\* or not.
LifeStep ==
  /\ \A r \in Recs :
       ((InList(r) /\ ~InList(r)') \/ (mem[r] = "live" /\ mem'[r] # "live")) =>
         /\ \E c \in CPUs : Sweeps(c) /\ Swept(c) = r
         /\ active[r] = 0
         /\ ~InList(r)' /\ mem'[r] = "free"
  /\ \A r \in Recs : (InList(r) /\ active[r] = 0 /\ InList(r)') => active'[r] = 0
  /\ \A q \in CPUs :
       Reads(q) =>
         /\ Copies(q)
         /\ Copy_(q) = [name |-> name[Copied(q)], cpu |-> acquires[Copied(q)]]

NoUseAfterFree ==
  /\ [](\A l \in Locks : lkstat[l] # NULL => mem[lkstat[l]] = "live")
  /\ [][\A r \in Recs : Counts(r) => mem[r] = "live"]_vars

\* The step is CPU q's call of function f.
Called(q, f) ==
  /\ pc[q] = "idle" /\ fn'[q] = f
  /\ <<pc'[q], fn'[q], arg'[q], rv'[q], dst'[q]>> # <<pc[q], fn[q], arg[q], rv[q], dst[q]>>

\* C14: a call of lockstat_read with off not a multiple of the record size,
\* or n less than the record size, returns -1 in that step, with nothing
\* copied to dst, and leaves the list, the records and their counters, the
\* locks' lk->stat, lockstat_enable, lockstat_lock and ncli as they were.
AlignmentContract ==
  [][\A q \in CPUs :
       (Called(q, "lockstat_read") /\ (arg'[q][1] % sz # 0 \/ arg'[q][2] < sz)) =>
         /\ pc'[q] = "idle" /\ rv'[q] = -1 /\ dst'[q] = <<>>
         /\ UNCHANGED <<statvars, lockvars, clivars, held>>]_vars

\* C14 happens: lockstat_read has returned -1 for an offset off the record
\* size and a sufficient length, with two records in the list.
AlignmentContractSeen ==
  \E q \in CPUs :
    /\ pc[q] = "idle" /\ fn[q] = "lockstat_read" /\ rv[q] = -1
    /\ arg[q][1] % sz # 0 /\ arg[q][2] >= sz
    /\ dst[q] = <<>> /\ Len(lockstat_list) = 2

Min(a, b) == IF a <= b THEN a ELSE b

\* lockstat_read on CPU q has left its loop (or is about to) and holds
\* lockstat_lock still.
LoopDone(q) ==
  \/ pc[q] = "read_loop" /\ (cur[q] \div sz >= Len(lockstat_list) \/ n[q] < sz)
  \/ pc[q] \in {"rel_xchg", "rel_popcli"} /\ ret[q] = "read_ret"
       /\ lockstat_lock \in held[q]

\* the number of records C15 says a read of n bytes at off copies
Quota(o, nn) == Min(nn \div sz, Max(Len(lockstat_list) - o \div sz, 0))

\* C15: when lockstat_read(off, n), off a multiple of the record size and
\* n at least the record size, has passed the list, dst holds copies of the
\* records at places off/sz, off/sz + 1, ... of the list, in that order,
\* min(n / sz, max(R - off/sz, 0)) of them for a list of R records; and
\* lockstat_read returns sz times the number of records in dst, at most n.
QueryResult ==
  /\ [](\A q \in CPUs :
          LoopDone(q) =>
            LET k == arg[q][1] \div sz
            IN /\ Len(dst[q]) = Quota(arg[q][1], arg[q][2])
               /\ \A i \in 1..Len(dst[q]) : dst[q][i] = Copy(lockstat_list[k + i]))
  /\ [][\A q \in CPUs :
          (pc[q] = "read_ret" /\ pc'[q] # "read_ret") =>
            /\ pc'[q] = "idle" /\ dst'[q] = dst[q]
            /\ rv'[q] = sz * Len(dst[q]) /\ rv'[q] <= arg[q][2]]_vars

\* C15 happens: lockstat_read at offset sz with room for two records has
\* passed a list of two records, copied the second and is to return sz.
QueryResultSeen ==
  \E q \in CPUs :
    /\ pc[q] = "read_loop" /\ LoopDone(q)
    /\ arg[q] = <<sz, 2 * sz + 1>> /\ Len(lockstat_list) = 2
    /\ dst[q] = <<Copy(lockstat_list[2])>>
    /\ name[lockstat_list[1]] # name[lockstat_list[2]]
    /\ cur[q] - off[q] = sz

\* the list, the records and their counters
registry == <<lockstat_list, mem, active, name, acquires>>

\* After the step CPU q, idle before it, has written command cmd last and
\* has had the length of the write returned.  (A second write of the same
\* command and length leaves no other trace on the CPU.)
Writes(q, cmd) ==
  /\ pc[q] = "idle" /\ pc'[q] = "idle" /\ fn'[q] = "lockstat_write"
  /\ arg'[q][1] = cmd /\ rv'[q] = arg'[q][2]

\* C16: a call of lockstat_write with first byte START sets lockstat_enable
\* and returns n in that step; with STOP it clears lockstat_enable and
\* returns n in that step; both leave the list, the records and the counters
\* as they were.  With CLEAR it goes into lockstat_clear (to acquire
\* lockstat_lock), leaving lockstat_enable as it was, and returns n after
\* the loop of lockstat_clear and the release.  With any other first byte it
\* returns -1 in that step and leaves lockstat_enable, the list, the records
\* and the counters as they were.  lockstat_enable changes in no other step
\* than a write of START or of STOP.
CommandDispatch ==
  [][\A q \in CPUs :
       /\ Called(q, "lockstat_write") =>
            LET cmd == arg'[q][1]
                nn == arg'[q][2]
            IN /\ cmd = LOCKSTAT_START =>
                    /\ lockstat_enable' = 1 /\ pc'[q] = "idle" /\ rv'[q] = nn
                    /\ UNCHANGED registry
               /\ cmd = LOCKSTAT_STOP =>
                    /\ lockstat_enable' = 0 /\ pc'[q] = "idle" /\ rv'[q] = nn
                    /\ UNCHANGED registry
               /\ cmd = LOCKSTAT_CLEAR =>
                    /\ pc'[q] \in {"acq_xchg", "panic"} /\ lk'[q] = lockstat_lock
                    /\ ret'[q] = "clear_loop"
                    /\ UNCHANGED <<lockstat_enable, registry>>
               /\ cmd \notin {LOCKSTAT_START, LOCKSTAT_STOP, LOCKSTAT_CLEAR} =>
                    /\ pc'[q] = "idle" /\ rv'[q] = -1
                    /\ UNCHANGED <<lockstat_enable, registry>>
       /\ (fn[q] = "lockstat_write" /\ pc[q] # "idle" /\ pc'[q] = "idle") =>
            /\ pc[q] = "write_ret" /\ arg[q][1] = LOCKSTAT_CLEAR
            /\ rv'[q] = arg[q][2]
            /\ UNCHANGED <<lockstat_enable, registry>>
       /\ lockstat_enable' # lockstat_enable =>
            /\ UNCHANGED registry
            /\ \E p \in CPUs :
                 Writes(p, IF lockstat_enable' = 1 THEN LOCKSTAT_START
                                                   ELSE LOCKSTAT_STOP)]_vars

\* C16 happens: a STOP of three bytes has returned 3, with collection off
\* and the tracked lock's counter for CPU 1 at 2.
CommandDispatchSeen ==
  \E q \in CPUs : \E r \in Recs :
    /\ pc[q] = "idle" /\ fn[q] = "lockstat_write"
    /\ arg[q] = <<LOCKSTAT_STOP, 3>> /\ rv[q] = 3 /\ lockstat_enable = 0
    /\ InList(r) /\ acquires[r][1] = 2

\* In a build without SPINLOCK_DEBUG, CPU c is in the loop of acquire(lk)
\* for a lock it holds.
SelfSpin(c) == ~debug /\ pc[c] = "acq_xchg" /\ lk[c] \in held[c]

\* C17: in a build without SPINLOCK_DEBUG, a CPU in acquire of a lock it
\* holds has interrupts off and finds the lock word 1, and whatever step is
\* taken it is still in the loop of that acquire, with interrupts off and
\* the lock word 1, and every other CPU that is in the loop of acquire of
\* that lock is still in it: none of these calls ever returns.
SelfDeadlock ==
  /\ [](\A c \in CPUs : SelfSpin(c) => (locked[lk[c]] = 1 /\ ~intr[c] /\ ncli[c] >= 2))
  /\ [][\A c \in CPUs :
          SelfSpin(c) =>
            /\ SelfSpin(c)' /\ lk'[c] = lk[c] /\ fn'[c] = fn[c]
            /\ locked'[lk[c]] = 1 /\ ~intr'[c]
            /\ \A q \in CPUs :
                 Spinning(q, lk[c]) => Spinning(q, lk[c])']_vars

\* C17 happens: without SPINLOCK_DEBUG a CPU is in acquire of a lock it
\* holds, and another CPU that called acquire of that lock is in the loop.
SelfDeadlockSeen ==
  \E c, q \in CPUs :
    /\ c # q /\ SelfSpin(c) /\ fn[c] = "acquire"
    /\ Spinning(q, lk[c]) /\ fn[q] = "acquire" /\ held[q] = {}

\* CPU c is at LIST_INSERT_HEAD, in the loop of lockstat_clear or in the
\* loop of lockstat_read.
InListOp(c) == pc[c] \in {"init_insert", "clear_loop", "read_loop"}

\* C18: a CPU at LIST_INSERT_HEAD or in the loop of lockstat_clear or of
\* lockstat_read holds lockstat_lock, and no two CPUs are there at once; the
\* list changes only in a step of a CPU that is there; every record in the
\* list is allocated and fully initialised; a record is copied only by a CPU
\* that holds lockstat_lock.
LockDiscipline ==
  /\ [](\A c \in CPUs :
          InListOp(c) =>
            /\ Holds(c, lockstat_lock) /\ locked[lockstat_lock] = 1
            /\ debug => lkcpu[lockstat_lock] = c
            /\ \A q \in CPUs \ {c} : ~InListOp(q))
  /\ [](\A r \in Recs : InList(r) => (mem[r] = "live" /\ name[r] # 0))
  /\ [][/\ lockstat_list' # lockstat_list =>
             \E c \in CPUs :
               /\ pc[c] \in {"init_insert", "clear_loop"}
               /\ (pc'[c] # pc[c] \/ Sweeps(c))
          /\ \A q \in CPUs :
               dst'[q] \notin {dst[q], <<>>} =>
                 (pc[q] = "read_loop" /\ Holds(q, lockstat_lock))]_vars

\* C18 happens: a CPU is in the loop of lockstat_clear at a record while
\* another, in lockstat_read, is in the loop of acquire(&lockstat_lock).
LockDisciplineSeen ==
  \E c, q \in CPUs :
    /\ pc[c] = "clear_loop" /\ cur[c] < Len(lockstat_list)
    /\ Spinning(q, lockstat_lock) /\ ret[q] = "read_loop"

\* CPU c has won lock l and is past locked(), and has not called release
\* for it since.
Owns(c, l) ==
  /\ Holds(c, l)
  /\ ~(lk[c] = l /\ pc[c] \in {"acq_locked", "try_locked", "rel_xchg"})

\* C19: in a SPINLOCK_DEBUG build, a lock whose word is 0 has lk->cpu 0; a
\* lock whose lk->cpu is CPU c has the word 1 and was won by c; and
\* holding(lk) on CPU c is true exactly from the end of locked() in c's
\* acquire or tryacquire of lk to c's call of release(lk), so never for a lock
\* that another CPU has won.
OwnerConsistency ==
  debug =>
    /\ \A l \in Locks : locked[l] = 0 => lkcpu[l] = 0
    /\ \A l \in Locks : \A c \in CPUs :
         /\ lkcpu[l] = c => (locked[l] = 1 /\ Holds(c, l))
         /\ holding(c, l) <=> Owns(c, l)
         /\ holding(c, l) => \A q \in CPUs \ {c} : ~Holds(q, l)

\* C19 happens: in a SPINLOCK_DEBUG build one CPU is between acquire and
\* release of a lock, and holding() is true for it, while another has won a
\* second lock and called release for it, and holding() is false for it.
OwnerConsistencySeen ==
  \E c, q \in CPUs : \E l, m \in UserLocks :
    /\ debug /\ c # q /\ l # m
    /\ pc[c] = "idle" /\ holding(c, l) /\ ~holding(q, l)
    /\ pc[q] = "rel_xchg" /\ lk[q] = m /\ Holds(q, m) /\ ~holding(q, m)
    /\ locked[m] = 1 /\ lkcpu[m] = 0

\* Collection is off, no acquisition is at its increment and every counter
\* is 0.
Off0 ==
  /\ lockstat_enable = 0
  /\ \A c \in CPUs : pc[c] \notin {"acq_count", "try_count"}
  /\ \A r \in Recs : acquires[r] = Zeros

\* The step is a write of the START command that sets lockstat_enable.
WritesStart == lockstat_enable' = 1 /\ \E q \in CPUs : Writes(q, LOCKSTAT_START)

\* C20: at the start lockstat_enable is 0 and every counter is 0, and they
\* stay so, whatever is acquired, until a step that writes START; an
\* acquisition comes to its increment only from a test of lockstat_enable
\* that found it set; and a counter of a record in the list changes only by
\* the increment of such an acquisition or by the reset of a turn of
\* lockstat_clear's loop.
OffAtStart ==
  /\ Off0
  /\ [][/\ Off0 => (Off0' \/ WritesStart)
        /\ \A c \in CPUs :
             (pc'[c] \in {"acq_count", "try_count"} /\ pc'[c] # pc[c]) =>
               (lockstat_enable # 0 /\ pc[c] \in {"acq_locked", "try_locked"})
        /\ \A r \in Recs :
             (InList(r) /\ InList(r)' /\ acquires'[r] # acquires[r]) =>
               \/ Counts(r)
               \/ \E c \in CPUs :
                    Sweeps(c) /\ Swept(c) = r /\ acquires'[r] = Zeros]_vars

\* C20 happens: with collection off and no acquisition at its increment, a
\* lock tracked since collection was off has been acquired twice by a CPU
\* and every counter is 0.
OffAtStartSeen ==
  \E l \in UserLocks : \E c \in CPUs :
    /\ Off0 /\ track[l] = "on" /\ ~on0[l] /\ Listed(l)
    /\ nacq[l][c] = 2

====
